---- MODULE Spec2Model ----
(***************************************************************************)
(* Model of scripts/generate-embeddings.py: the loader, the batch embedder *)
(* with its retry loop, the writer, and the orchestration in main() and    *)
(* the __main__ guard.                                                     *)
(*                                                                         *)
(* Knowledge items are represented by their row number (1..nRows); the     *)
(* payload of a point is the item it was built from.  A vector is          *)
(* represented by its length and the request text it embeds.  The          *)
(* embedding service is an external collaborator: each call either raises  *)
(* or returns a response, which may be well formed or not.                 *)
(***************************************************************************)
EXTENDS Integers, Sequences, FiniteSets, TLC

\* ---------------------------------------------------------------- bounds
\* Largest number of data rows in the input file.
MaxItems == 3
\* BATCH_SIZE of the script (100 there), scaled down so that several
\* batches, a short last batch and an exact multiple all occur.
BATCH_SIZE == 2
\* Longest raw season/tags/climate field of a row (loader specification).
MaxFieldLen == 3

\* ------------------------------------------------------ program constants
EMBEDDING_DIMENSIONS == 1536
RETRY_ATTEMPTS == 3

VARIABLES
    pc,            \* position of the process
    exitCode,      \* -1 while running, then the process exit status
    apiKey,        \* os.getenv('OPENAI_API_KEY'): "unset", "empty" or "set"
    csvOk,         \* whether the input file can be opened and parsed
    nRows,         \* number of data rows of the input file
    inputRead,     \* the input file has been opened
    items,         \* result of load_knowledge_base
    i,             \* loop variable of the batch loop
    attempt,       \* loop variable of the retry loop
    points,        \* accumulated points list of generate_embeddings
    nextId,        \* source of fresh ids (uuid4)
    log,           \* history: one entry per call of client.embeddings.create
    retryDelays,   \* history: number of time.sleep(RETRY_DELAY) taken
    batchDelays,   \* history: number of time.sleep(0.5) taken
    writerInvoked, \* history: save_embeddings has been entered
    outOps,        \* history: file operations on the output path
    outFile0,      \* the output file as it was when the process started
    outFile,       \* the output file
    wpos,          \* writer: number of points serialised so far
    row,           \* loader: the raw season/tags/climate fields of one row
    loaded         \* loader: the item built from the row

vars == <<pc, exitCode, apiKey, csvOk, nRows, inputRead, items, i, attempt,
          points, nextId, log, retryDelays, batchDelays, writerInvoked,
          outOps, outFile0, outFile, wpos, row, loaded>>

\* ---------------------------------------------------------------- helpers
Min(a, b) == IF a < b THEN a ELSE b

Range(s) == {s[k] : k \in 1..Len(s)}

CeilDiv(n, b) == (n + b - 1) \div b

RECURSIVE Concat(_)
Concat(ss) == IF ss = <<>> THEN <<>> ELSE Head(ss) \o Concat(Tail(ss))

\* The output file: absent, holding some earlier content, or (re)written by
\* this run with the records written so far and whether the metadata block
\* has been written.
AbsentFile == [state |-> "absent", points |-> <<>>, meta |-> FALSE]
OldFile == [state |-> "old", points |-> <<>>, meta |-> FALSE]

\* `if not api_key` (main): None and the empty string are both falsy.
KeyMissingNoneOnly(k) == k = "unset"
KeyMissing(k) == k \in {"unset", "empty"}

\* items[i:i + BATCH_SIZE]
BatchOffByOne(its, idx) == SubSeq(its, idx + 1, Min(idx + BATCH_SIZE + 1, Len(its)))
Batch(its, idx) == SubSeq(its, idx + 1, Min(idx + BATCH_SIZE, Len(its)))

\* create_embedding_text(item): the request text of an item.
create_embedding_text(item) == [text_of |-> item]

\* `if attempt < RETRY_ATTEMPTS - 1` in the except clause.
CanRetryAlways(a) == a < RETRY_ATTEMPTS
CanRetry(a) == a < RETRY_ATTEMPTS - 1

\* `if i + BATCH_SIZE < len(items)` before the inter-batch sleep.
HasSuccessorAlways(idx, n) == idx < n
HasSuccessor(idx, n) == idx + BATCH_SIZE < n

\* `break` after the points of a response have been appended.
NoBreak == FALSE
BreakOnSuccess == TRUE

\* A response of the service to a request of n texts: k embedding objects,
\* all vectors of length dim, and the bad-th object (0: none) malformed, so
\* that reading its embedding raises.  The responses considered are the
\* right-sized one, one object short, one object long, and a right-sized one
\* with one malformed object; the vectors have the requested length or not.
Responses(n) ==
    [k : {m \in {n - 1, n, n + 1} : m >= 0},
     dim : {EMBEDDING_DIMENSIONS, EMBEDDING_DIMENSIONS - 1},
     bad : 0..n]

\* One representative per observable outcome: a malformed object only in a
\* right-sized response, and a vector length only where a vector is used.
ValidResponse(n, r) ==
    /\ r.bad # 0 => r.k = n
    /\ (r.k = 0 \/ r.bad = 1) => r.dim = EMBEDDING_DIMENSIONS

\* The enumerate loop over response.data: the 1-based index of the first
\* element at which the loop body raises (batch[j] out of range, or no
\* embedding on the object), or 0 when the loop completes.
FirstRaise(n, r) ==
    LET over == IF r.k > n THEN n + 1 ELSE 0
    IN  IF r.bad # 0 /\ (over = 0 \/ r.bad < over) THEN r.bad ELSE over

\* Number of points appended by the loop for response r.
Appended(n, r) == IF FirstRaise(n, r) = 0 THEN r.k ELSE FirstRaise(n, r) - 1

\* The points built from the first m elements of the response.
MakePoints(batch, texts, r, m, id0) ==
    [j \in 1..m |->
        [id |-> id0 + j,
         vector |-> [dim |-> r.dim, of |-> texts[j]],
         payload |-> batch[j]]]

StripIds(ps) == [j \in 1..Len(ps) |-> [vector |-> ps[j].vector, payload |-> ps[j].payload]]

\* ------------------------------------------------------------------- Init
RunInit ==
    /\ pc = "main"
    /\ exitCode = -1
    /\ apiKey \in {"unset", "empty", "set"}
    /\ csvOk \in BOOLEAN
    /\ nRows \in 0..MaxItems
    /\ inputRead = FALSE
    /\ items = <<>>
    /\ i = 0
    /\ attempt = 0
    /\ points = <<>>
    /\ nextId = 0
    /\ log = <<>>
    /\ retryDelays = 0
    /\ batchDelays = 0
    /\ writerInvoked = FALSE
    /\ outOps = 0
    /\ outFile0 \in {AbsentFile, OldFile}
    /\ outFile = outFile0
    /\ wpos = 0

Init ==
    /\ RunInit
    /\ row = [season |-> <<>>, tags |-> <<>>, climate |-> <<>>]
    /\ loaded = [season |-> <<>>, tags |-> <<>>, climate |-> <<>>]

\* sys.exit(code): the process ends.
Exit(code) ==
    /\ pc' = "exit"
    /\ exitCode' = code

\* ------------------------------------------------------------------- main
\* main(): the credential check.
MainCheckKey ==
    /\ pc = "main"
    /\ IF KeyMissing(apiKey)
         THEN Exit(1)
         ELSE pc' = "load" /\ exitCode' = exitCode
    /\ UNCHANGED <<apiKey, csvOk, nRows, inputRead, items, i, attempt, points,
                   nextId, log, retryDelays, batchDelays, writerInvoked,
                   outOps, outFile0, outFile, wpos, row, loaded>>

\* load_knowledge_base(CSV_FILE), then print_statistics and the entry of
\* generate_embeddings (points = []).
LoadKnowledgeBase ==
    /\ pc = "load"
    /\ inputRead' = TRUE
    /\ IF csvOk
         THEN /\ items' = [k \in 1..nRows |-> k]
              /\ pc' = "batch"
              /\ exitCode' = exitCode
         ELSE /\ Exit(1)
              /\ items' = items
    /\ UNCHANGED <<apiKey, csvOk, nRows, i, attempt, points, nextId, log,
                   retryDelays, batchDelays, writerInvoked, outOps, outFile0,
                   outFile, wpos, row, loaded>>

\* Head of `for i in range(0, len(items), BATCH_SIZE)`: the next batch, or
\* the end of the loop and the return to main, which calls save_embeddings.
NextBatch ==
    /\ pc = "batch"
    /\ \/ /\ i < Len(items)
          /\ attempt' = 0
          /\ pc' = "attempt"
       \/ /\ i >= Len(items)
          /\ attempt' = attempt
          /\ pc' = "save"
    /\ UNCHANGED <<exitCode, apiKey, csvOk, nRows, inputRead, items, i, points,
                   nextId, log, retryDelays, batchDelays, writerInvoked,
                   outOps, outFile0, outFile, wpos, row, loaded>>

\* The code after the retry loop: the rate limiting delay and the step of
\* the batch loop.
LeaveRetryLoop ==
    /\ batchDelays' = IF HasSuccessor(i, Len(items)) THEN batchDelays + 1 ELSE batchDelays
    /\ i' = i + BATCH_SIZE
    /\ attempt' = attempt
    /\ pc' = "batch"

\* One attempt whose try block completes: the call returns and every element
\* of response.data becomes a point.
AttemptSucceeds ==
    /\ pc = "attempt"
    /\ LET batch == Batch(items, i)
           texts == [j \in 1..Len(batch) |-> create_embedding_text(batch[j])]
       IN  \E r \in Responses(Len(batch)) :
             /\ ValidResponse(Len(batch), r)
             /\ FirstRaise(Len(batch), r) = 0
             /\ points' = points \o MakePoints(batch, texts, r, r.k, nextId)
             /\ nextId' = nextId + r.k
             /\ log' = Append(log, [start |-> i, items |-> batch, ok |-> TRUE,
                                    resp |-> r])
    /\ IF BreakOnSuccess \/ attempt + 1 >= RETRY_ATTEMPTS
         THEN LeaveRetryLoop
         ELSE /\ attempt' = attempt + 1
              /\ UNCHANGED <<pc, i, batchDelays>>
    /\ UNCHANGED <<exitCode, apiKey, csvOk, nRows, inputRead, items,
                   retryDelays, writerInvoked, outOps, outFile0, outFile,
                   wpos, row, loaded>>

\* The except clause: sleep and go on with the next attempt, or exit.
HandleFailure ==
    IF CanRetry(attempt)
      THEN /\ retryDelays' = retryDelays + 1
           /\ exitCode' = exitCode
           /\ IF attempt + 1 < RETRY_ATTEMPTS
                THEN /\ attempt' = attempt + 1
                     /\ UNCHANGED <<pc, i, batchDelays>>
                ELSE LeaveRetryLoop
      ELSE /\ Exit(1)
           /\ UNCHANGED <<retryDelays, attempt, i, batchDelays>>

\* One attempt that raises inside the try block: the call itself raises
\* (raised = TRUE), or it returns and the loop over response.data raises.
AttemptFails ==
    /\ pc = "attempt"
    /\ LET batch == Batch(items, i)
           texts == [j \in 1..Len(batch) |-> create_embedding_text(batch[j])]
       IN  \/ /\ UNCHANGED <<points, nextId>>
              /\ log' = Append(log, [start |-> i, items |-> batch, ok |-> FALSE,
                                     resp |-> [k |-> 0, dim |-> EMBEDDING_DIMENSIONS,
                                               bad |-> 0]])
           \/ \E r \in Responses(Len(batch)) :
                /\ ValidResponse(Len(batch), r)
                /\ FirstRaise(Len(batch), r) # 0
                /\ points' = points \o MakePoints(batch, texts, r,
                                                  Appended(Len(batch), r), nextId)
                /\ nextId' = nextId + Appended(Len(batch), r)
                /\ log' = Append(log, [start |-> i, items |-> batch, ok |-> FALSE,
                                       resp |-> r])
    /\ HandleFailure
    /\ UNCHANGED <<apiKey, csvOk, nRows, inputRead, items, writerInvoked,
                   outOps, outFile0, outFile, wpos, row, loaded>>

\* ----------------------------------------------------------------- writer
\* save_embeddings: os.makedirs of the output directory.
SaveMakedirs ==
    /\ pc = "save"
    /\ writerInvoked' = TRUE
    /\ outOps' = outOps + 1
    /\ \/ pc' = "open" /\ exitCode' = exitCode
       \/ Exit(1)
    /\ UNCHANGED <<apiKey, csvOk, nRows, inputRead, items, i, attempt, points,
                   nextId, log, retryDelays, batchDelays, outFile0, outFile,
                   wpos, row, loaded>>

\* open(output_path, 'w'): creates or truncates the file, or raises and
\* leaves it alone.
SaveOpen ==
    /\ pc = "open"
    /\ outOps' = outOps + 1
    /\ \/ /\ outFile' = [state |-> "new", points |-> <<>>, meta |-> FALSE]
          /\ pc' = "dump"
          /\ exitCode' = exitCode
       \/ /\ Exit(1)
          /\ outFile' = outFile
    /\ UNCHANGED <<apiKey, csvOk, nRows, inputRead, items, i, attempt, points,
                   nextId, log, retryDelays, batchDelays, writerInvoked,
                   outFile0, wpos, row, loaded>>

\* json.dump writes the document piece by piece: the points in order, then
\* the metadata block.  A write may raise (the except clause exits 1).
SaveDump ==
    /\ pc = "dump"
    /\ outOps' = outOps + 1
    /\ \/ /\ wpos < Len(points)
          /\ outFile' = [outFile EXCEPT !.points = Append(@, points[wpos + 1])]
          /\ wpos' = wpos + 1
          /\ UNCHANGED <<pc, exitCode>>
       \/ /\ wpos = Len(points)
          /\ outFile' = [outFile EXCEPT !.meta = TRUE]
          /\ wpos' = wpos
          /\ pc' = "saved"
          /\ exitCode' = exitCode
       \/ /\ Exit(1)
          /\ UNCHANGED <<outFile, wpos>>
    /\ UNCHANGED <<apiKey, csvOk, nRows, inputRead, items, i, attempt, points,
                   nextId, log, retryDelays, batchDelays, writerInvoked,
                   outFile0, row, loaded>>

\* The rest of save_embeddings and of main: the process ends with status 0.
Finish ==
    /\ pc = "saved"
    /\ Exit(0)
    /\ UNCHANGED <<apiKey, csvOk, nRows, inputRead, items, i, attempt, points,
                   nextId, log, retryDelays, batchDelays, writerInvoked,
                   outOps, outFile0, outFile, wpos, row, loaded>>

\* KeyboardInterrupt at any point of the run: the __main__ guard exits 1.
Interrupt ==
    /\ pc # "exit"
    /\ Exit(1)
    /\ UNCHANGED <<apiKey, csvOk, nRows, inputRead, items, i, attempt, points,
                   nextId, log, retryDelays, batchDelays, writerInvoked,
                   outOps, outFile0, outFile, wpos, row, loaded>>

Next ==
    \/ MainCheckKey
    \/ LoadKnowledgeBase
    \/ NextBatch
    \/ AttemptSucceeds
    \/ AttemptFails
    \/ SaveMakedirs
    \/ SaveOpen
    \/ SaveDump
    \/ Finish
    \/ Interrupt

Spec == Init /\ [][Next]_vars

\* ----------------------------------------------------------------- loader
\* The characters of a raw field: two letters, a blank and the two in-field
\* delimiters.
Alphabet == {"a", "b", " ", ",", ";"}

Strings == UNION {[1..n -> Alphabet] : n \in 0..MaxFieldLen}

\* Position of the first occurrence of d in s, or 0.
RECURSIVE Find(_, _, _)
Find(s, d, p) ==
    IF p > Len(s) THEN 0
    ELSE IF s[p] = d THEN p
    ELSE Find(s, d, p + 1)

\* str.split(d): the pieces between the delimiters, empty pieces included.
RECURSIVE Split(_, _)
Split(s, d) ==
    LET p == Find(s, d, 1)
    IN  IF p = 0 THEN <<s>>
        ELSE <<SubSeq(s, 1, p - 1)>> \o Split(SubSeq(s, p + 1, Len(s)), d)

\* str.strip(): without leading and trailing blanks.
RECURSIVE Strip(_)
Strip(s) ==
    IF s = <<>> THEN s
    ELSE IF Head(s) = " " THEN Strip(Tail(s))
    ELSE IF s[Len(s)] = " " THEN Strip(SubSeq(s, 1, Len(s) - 1))
    ELSE s

StripAll(ss) == [k \in 1..Len(ss) |-> Strip(ss[k])]

NonEmpty(t) == t # <<>>

\* [s.strip() for s in row['season'].split(',')]
ParseSeason(field) == StripAll(Split(field, ","))

\* [t.strip() for t in row.get(..., '').split(';') if t.strip()]
ParseSemicolonList(field) == SelectSeq(StripAll(Split(field, ";")), NonEmpty)

LoaderInit ==
    /\ pc = "row"
    /\ exitCode = -1
    /\ apiKey = "set"
    /\ csvOk = TRUE
    /\ nRows = 1
    /\ inputRead = TRUE
    /\ items = <<>>
    /\ i = 0
    /\ attempt = 0
    /\ points = <<>>
    /\ nextId = 0
    /\ log = <<>>
    /\ retryDelays = 0
    /\ batchDelays = 0
    /\ writerInvoked = FALSE
    /\ outOps = 0
    /\ outFile0 = AbsentFile
    /\ outFile = outFile0
    /\ wpos = 0
    /\ row \in [season : Strings, tags : Strings, climate : Strings]
    /\ loaded = [season |-> <<>>, tags |-> <<>>, climate |-> <<>>]

\* The body of `for row in reader`: the three list fields of the item.
LoadRow ==
    /\ pc = "row"
    /\ loaded' = [season |-> ParseSeason(row.season),
                  tags |-> ParseSemicolonList(row.tags),
                  climate |-> ParseSemicolonList(row.climate)]
    /\ pc' = "row_done"
    /\ UNCHANGED <<exitCode, apiKey, csvOk, nRows, inputRead, items, i, attempt,
                   points, nextId, log, retryDelays, batchDelays, writerInvoked,
                   outOps, outFile0, outFile, wpos, row>>

LoaderNext == LoadRow

LoaderSpec == LoaderInit /\ [][LoaderNext]_vars

\* The same run under weak fairness: the process keeps executing.
FairSpec == Spec /\ WF_vars(Next)

\* ----------------------------------------------------------- observations
Max(a, b) == IF a > b THEN a ELSE b

Terminated == pc = "exit"

Succeeded == pc = "exit" /\ exitCode = 0

\* The batch loop has run to its end.
EmbedderDone == pc \in {"save", "open", "dump", "saved"} \/ writerInvoked

Failed == {p \in 1..Len(log) : ~log[p].ok}

NoAttemptFailed == Failed = {}

\* The RETRY_ATTEMPTS consecutive calls starting with call p are attempts for
\* the same batch and all of them failed.
ExhaustedAt(p) ==
    /\ p + RETRY_ATTEMPTS - 1 <= Len(log)
    /\ \A q \in p..(p + RETRY_ATTEMPTS - 1) :
          ~log[q].ok /\ log[q].start = log[p].start

Exhausted == \E p \in 1..Len(log) : ExhaustedAt(p)

\* The records a response yields when it is accepted as a success.
RecordsOf(e) ==
    [j \in 1..e.resp.k |->
        [vector |-> [dim |-> e.resp.dim, of |-> [text_of |-> e.items[j]]],
         payload |-> e.items[j]]]

\* The output of a run in which only the successful attempts had been made.
RECURSIVE SuccessfulOutput(_)
SuccessfulOutput(lg) ==
    IF lg = <<>> THEN <<>>
    ELSE (IF Head(lg).ok THEN RecordsOf(Head(lg)) ELSE <<>>)
         \o SuccessfulOutput(Tail(lg))

CallItems == Concat([p \in 1..Len(log) |-> log[p].items])

CompleteFile ==
    /\ outFile.state = "new"
    /\ outFile.meta
    /\ Len(outFile.points) = Len(items)
    /\ \A k \in 1..Len(items) : outFile.points[k].payload = items[k]

\* ----------------------------------------------------------------- claims

\* C1: in every run that ends with exit 0 the points list handed to the
\* writer has exactly one record per loaded item, in item order, and the
\* payload of the k-th record is the k-th item.
C1_OneRecordPerItem ==
    Succeeded =>
        /\ Len(points) = Len(items)
        /\ \A k \in 1..Len(items) : points[k].payload = items[k]

\* C2: retry transparency: the accumulated records (ids aside) are those of
\* the successful attempts alone, so a failed attempt, whether the call raised
\* or the response was malformed, leaves the points list unchanged.
C2_RetryTransparent == StripIds(points) = SuccessfulOutput(log)

\* C3: once the attempts for a batch have failed RETRY_ATTEMPTS times in a
\* row the run has ended with exit code 1, no later call was sent to the
\* service, the writer was never entered and the output file is untouched.
C3_ExhaustionAborts ==
    \A p \in 1..Len(log) :
        ExhaustedAt(p) =>
            /\ Len(log) = p + RETRY_ATTEMPTS - 1
            /\ Terminated
            /\ exitCode = 1
            /\ ~writerInvoked
            /\ outOps = 0
            /\ outFile = outFile0

\* C3 witness: the second batch exhausted its attempts after the first batch
\* had produced records.
C3_Witness ==
    /\ Exhausted
    /\ log[Len(log)].start > 0
    /\ points # <<>>
    /\ Terminated

\* C4: in every terminal state the output file is untouched or holds the
\* complete result (one record per input item and the metadata block).
C4_AllOrNothing == Terminated => (outFile = outFile0 \/ CompleteFile)

\* C5: when no attempt fails the service is called exactly ceil(N/B) times,
\* every call carries at least one and at most B items, and the items of the
\* calls, concatenated in call order, are the original item sequence; with no
\* items there is no call and no record.
C5_Batching ==
    /\ \A p \in 1..Len(log) :
          Len(log[p].items) >= 1 /\ Len(log[p].items) <= BATCH_SIZE
    /\ (EmbedderDone /\ NoAttemptFailed) =>
          /\ Len(log) = CeilDiv(Len(items), BATCH_SIZE)
          /\ CallItems = items
          /\ (items = <<>> => points = <<>>)

\* C5 witness: the loop ended without a failure after a full batch and a
\* short last batch.
C5_Witness ==
    /\ pc = "save"
    /\ NoAttemptFailed
    /\ Len(log) = 2
    /\ Len(log[2].items) < Len(log[1].items)

\* C6: season, tags and climate of a loaded item contain no empty string and
\* are the non-empty trimmed sub-fields of the raw field, in order (season
\* split on ',', tags and climate split on ';').
C6_NoEmptySubfields ==
    pc = "row_done" =>
        /\ \A f \in {"season", "tags", "climate"} :
              \A k \in 1..Len(loaded[f]) : loaded[f][k] # <<>>
        /\ loaded.season = SelectSeq(StripAll(Split(row.season, ",")), NonEmpty)
        /\ loaded.tags = SelectSeq(StripAll(Split(row.tags, ";")), NonEmpty)
        /\ loaded.climate = SelectSeq(StripAll(Split(row.climate, ";")), NonEmpty)

\* C7: every record in the points list and in the output file has a vector
\* of length EMBEDDING_DIMENSIONS.
C7_VectorLength ==
    \A r \in Range(points) \cup Range(outFile.points) :
        r.vector.dim = EMBEDDING_DIMENSIONS

\* C8: with the credential absent or empty the run ends with exit code 1
\* before the input file is read, before any service call and before any
\* operation on the output path.
C8_MissingKey ==
    apiKey \in {"unset", "empty"} =>
        /\ pc \in {"main", "exit"}
        /\ (Terminated => exitCode = 1)
        /\ ~inputRead
        /\ log = <<>>
        /\ ~writerInvoked
        /\ outOps = 0
        /\ outFile = outFile0

\* C8 witness: the run ended because the credential is the empty string.
C8_Witness == apiKey = "empty" /\ Terminated /\ exitCode = 1

\* C9: the inter-batch delay is taken once after each successful batch that
\* has a successor and never after the last batch; the inter-retry delay is
\* taken once after each failed attempt except the one that aborts the run;
\* a run that succeeds without failures takes max(ceil(N/B) - 1, 0)
\* inter-batch delays.
C9_DelayPlacement ==
    /\ batchDelays =
          Cardinality({p \in 1..Len(log) :
              log[p].ok /\ log[p].start + Len(log[p].items) < Len(items)})
    /\ retryDelays = Cardinality(Failed) - (IF Exhausted THEN 1 ELSE 0)
    /\ (EmbedderDone /\ NoAttemptFailed) =>
          batchDelays = Max(CeilDiv(Len(items), BATCH_SIZE) - 1, 0)

\* C9 witness: a successful run of two batches with a retried attempt.
C9_Witness ==
    /\ Succeeded
    /\ batchDelays = 1
    /\ retryDelays >= 1
    /\ Len(items) > BATCH_SIZE

\* Calls made for the batch starting at item index s.
CallsFor(s) == {p \in 1..Len(log) : log[p].start = s}

C10_Bounded ==
    /\ \A p \in 1..Len(log) : Cardinality(CallsFor(log[p].start)) <= RETRY_ATTEMPTS
    /\ \A p, q \in 1..Len(log) :
          (p < q /\ log[p].start = log[q].start) => ~log[p].ok
    /\ Len(log) <= RETRY_ATTEMPTS * CeilDiv(nRows, BATCH_SIZE)

\* C10: the service is called at most RETRY_ATTEMPTS times for a batch, a
\* batch is not attempted again after a successful attempt, the run makes at
\* most RETRY_ATTEMPTS * ceil(N/B) calls, and it always reaches a terminal
\* state.
C10_BoundedRetries == []C10_Bounded /\ <>Terminated

\* C10 witness: a batch was attempted RETRY_ATTEMPTS times, the last attempt
\* succeeded, and the run ended with exit 0.
C10_Witness ==
    /\ Succeeded
    /\ \E p \in 1..Len(log) :
          log[p].ok /\ Cardinality(CallsFor(log[p].start)) = RETRY_ATTEMPTS

====
